---- MODULE Spec2Model ----
(***************************************************************************)
(* A model of the cron exit tracer (agent/ebpf/cron_exit.c): the two       *)
(* tracepoint programs handle_fork and handle_exit, the hash map           *)
(* monitored_pids they share, the perf event channel "events", and the     *)
(* helper get_task_ns_pid.                                                 *)
(*                                                                         *)
(* The kernel runs the programs on several CPUs at once.  A program runs   *)
(* to completion on its CPU, but the map and the channel are shared, so    *)
(* the model interleaves the programs at their helper calls: handle_fork   *)
(* makes one call (bpf_map_update_elem), handle_exit makes three           *)
(* (bpf_map_lookup_elem, bpf_perf_event_output, bpf_map_delete_elem).      *)
(*                                                                         *)
(* The kernel's tasks are the inputs.  A task has an id (pid) and a        *)
(* thread-group id (tgid); a process has pid = tgid, a thread created with *)
(* CLONE_THREAD has the tgid of its creator.  sched_process_fork and       *)
(* sched_process_exit fire for every task, processes and threads alike.    *)
(***************************************************************************)
EXTENDS Integers, Sequences, FiniteSets, TLC

(***************************************************************************)
(* Bounds of the model.                                                    *)
(***************************************************************************)
\* Task ids the model follows: 1..MaxPid.
MaxPid == 2
\* Capacity of monitored_pids.  The program sets max_entries to 10240
\* (cron_exit.c:39); the model runs the same map with a small capacity.
max_entries == 1
\* Records the perf buffer holds before a write fails for lack of room.
PerfCap == 1

Pids == 1..MaxPid
CPUs == {0, 1}

(***************************************************************************)
(* Machine arithmetic.                                                     *)
(***************************************************************************)
\* The model keeps a 32-bit word, int or u32, as the integer in
\* -2^31 .. 2^31-1 that has the same 32 bits; an assignment between int and
\* u32 keeps the bits.  A 64-bit word is the pair of its 32-bit halves.
RECURSIVE Pow2(_)
Pow2(n) == IF n = 0 THEN 1 ELSE 2 * Pow2(n - 1)

\* Bit i of a two's-complement word x is (x \div 2^i) % 2, \div rounding down.
RECURSIVE AndBits(_, _, _)
AndBits(a, b, n) ==
    IF n = 0 THEN 0
    ELSE (IF a % 2 = 1 /\ b % 2 = 1 THEN 1 ELSE 0)
         + 2 * AndBits(a \div 2, b \div 2, n - 1)

\* x & mask, for a mask of at most 16 bits.
BitAnd(x, mask) == AndBits(x, mask, 16)

\* x >> n on a signed int: the build shifts arithmetically; a logical shift
\* differs only in bits the program masks away.
Shr(x, n) == x \div Pow2(n)

\* a < b on unsigned 32-bit words.
U32Less(a, b) ==
    \/ a >= 0 /\ b >= 0 /\ a < b
    \/ a >= 0 /\ b < 0
    \/ a < 0 /\ b < 0 /\ a < b

\* x >> 32 on a 64-bit word, and its assignment to a u32.
Shr64By32(x) == [hi |-> 0, lo |-> x.hi]
U64ToU32(x) == x.lo

(***************************************************************************)
(* Task names.  A name is a tuple of characters; the kernel hands it to a  *)
(* program as a 16-byte buffer, NUL-padded.                                *)
(***************************************************************************)
NUL == ""
TASK_COMM_LEN == 16

n_cron    == <<"c", "r", "o", "n">>
n_CRON    == <<"C", "R", "O", "N">>
n_crond   == <<"c", "r", "o", "n", "d">>
n_crontab == <<"c", "r", "o", "n", "t", "a", "b">>
n_cronx   == <<"c", "r", "o", "n", "x">>
n_CRONX   == <<"C", "R", "O", "N", "X">>
n_Cron    == <<"C", "r", "o", "n">>
n_cRON    == <<"c", "R", "O", "N">>
n_cro     == <<"c", "r", "o">>
n_bash    == <<"b", "a", "s", "h">>

\* The names a forking task may carry.
Names == {n_cron, n_CRON, n_crond, n_crontab, n_cronx, n_CRONX,
          n_Cron, n_cRON, n_cro, n_bash}

\* bpf_get_current_comm(&buf, 16): the name, then NULs.
bpf_get_current_comm(name) ==
    [i \in 0..(TASK_COMM_LEN - 1) |->
        IF i < Len(name) THEN name[i + 1] ELSE NUL]

(***************************************************************************)
(* handle_fork's filter on the name of the forking task.                   *)
(***************************************************************************)
\* A slip a case-insensitive comparison would make.
parent_matches_anycase(parent_comm) ==
    /\ parent_comm[0] \in {"c", "C"}
    /\ parent_comm[1] \in {"r", "R"}
    /\ parent_comm[2] \in {"o", "O"}
    /\ parent_comm[3] \in {"n", "N"}

\* A slip that forgets the upper-case pattern.
parent_matches_lower(parent_comm) ==
    /\ parent_comm[0] = "c" /\ parent_comm[1] = "r"
    /\ parent_comm[2] = "o" /\ parent_comm[3] = "n"

parent_matches(parent_comm) ==
    \/ (parent_comm[0] = "c" /\ parent_comm[1] = "r"
        /\ parent_comm[2] = "o" /\ parent_comm[3] = "n")
    \/ (parent_comm[0] = "C" /\ parent_comm[1] = "R"
        /\ parent_comm[2] = "O" /\ parent_comm[3] = "N")
    \/ (parent_comm[0] = "c" /\ parent_comm[1] = "r"
        /\ parent_comm[2] = "o" /\ parent_comm[3] = "n"
        /\ parent_comm[4] = "d")

(***************************************************************************)
(* monitored_pids: a BPF_MAP_TYPE_HASH from u32 to u8.  A map value is a   *)
(* function from the keys present to their bytes.  The hash map has no     *)
(* eviction: an insert of a new key into a full map fails with -E2BIG (-7) *)
(* and an update of a key that is present always succeeds.                 *)
(***************************************************************************)
BPF_ANY     == 0
BPF_NOEXIST == 1
BPF_EXIST   == 2

EmptyMap == [k \in {} |-> 0]

\* A lookup that answers for the map rather than for the key.
bpf_map_lookup_elem_anykey(map, key) == DOMAIN map # {}

bpf_map_lookup_elem(map, key) == key \in DOMAIN map

MapPut(map, key, value) ==
    [k \in (DOMAIN map) \cup {key} |-> IF k = key THEN value ELSE map[k]]

\* A map that evicts an entry to make room, as an LRU hash map would.
bpf_map_update_elem_evicting(map, key, value, flags) ==
    IF key \in DOMAIN map \/ Cardinality(DOMAIN map) < max_entries
    THEN [map |-> MapPut(map, key, value), rc |-> 0]
    ELSE LET victim == CHOOSE k \in DOMAIN map : TRUE
         IN  [map |-> MapPut([k \in (DOMAIN map) \ {victim} |-> map[k]],
                             key, value),
              rc |-> 0]

\* A map that tests its capacity before it looks for the key.
bpf_map_update_elem_fullfirst(map, key, value, flags) ==
    IF Cardinality(DOMAIN map) >= max_entries
    THEN [map |-> map, rc |-> -7]
    ELSE [map |-> MapPut(map, key, value), rc |-> 0]

bpf_map_update_elem(map, key, value, flags) ==
    IF key \in DOMAIN map
    THEN IF flags = BPF_NOEXIST
         THEN [map |-> map, rc |-> -17]
         ELSE [map |-> MapPut(map, key, value), rc |-> 0]
    ELSE IF flags = BPF_EXIST
         THEN [map |-> map, rc |-> -2]
         ELSE IF Cardinality(DOMAIN map) >= max_entries
              THEN [map |-> map, rc |-> -7]
              ELSE [map |-> MapPut(map, key, value), rc |-> 0]

\* A delete that empties the map.
bpf_map_delete_elem_flush(map, key) ==
    IF key \in DOMAIN map
    THEN [map |-> EmptyMap, rc |-> 0]
    ELSE [map |-> EmptyMap, rc |-> -2]

bpf_map_delete_elem(map, key) ==
    IF key \in DOMAIN map
    THEN [map |-> [k \in (DOMAIN map) \ {key} |-> map[k]], rc |-> 0]
    ELSE [map |-> map, rc |-> -2]

(***************************************************************************)
(* events: a BPF_MAP_TYPE_PERF_EVENT_ARRAY.  A write copies the record     *)
(* into the buffer or fails; it fails when the buffer has no room, and may *)
(* fail for other reasons (no reader attached).  no_fault says whether the *)
(* write meets none of those other reasons.                                *)
(***************************************************************************)
bpf_perf_event_output(buffer, evt, no_fault) ==
    IF no_fault /\ Len(buffer) < PerfCap
    THEN [buffer |-> Append(buffer, evt), rc |-> 0]
    ELSE [buffer |-> buffer, rc |-> -28]

(***************************************************************************)
(* Kernel structures, as far as the programs read them.  A task handle is  *)
(* a record [ptr, pid, thread_pid]; ptr = 0 is the null pointer, and a     *)
(* BPF_CORE_READ through a null pointer yields 0.  struct pid is           *)
(* [level, numbers], numbers an array of 8 struct upid, indexed 0..7.      *)
(***************************************************************************)
NumbersLen == 8
\* What a read outside the numbers array would be reported as.
OutOfBounds == 0 - 1

\* The struct pid of a task that lives in the initial pid namespace only.
HostPid(p) ==
    [level |-> 0,
     numbers |-> [i \in 0..(NumbersLen - 1) |-> IF i = 0 THEN p ELSE 0]]

NullTask == [ptr |-> 0, pid |-> 0, thread_pid |-> HostPid(0)]
HostTask(p) == [ptr |-> p, pid |-> p, thread_pid |-> HostPid(p)]

\* BPF_CORE_READ(pid_struct, numbers[i].nr)
core_read_nr(pid_struct, i) ==
    IF i \in DOMAIN pid_struct.numbers
    THEN pid_struct.numbers[i]
    ELSE OutOfBounds

\* A bound check that lets level 8 through.
ns_index_offbyone(level) ==
    IF U32Less(0, level) /\ ~U32Less(8, level) THEN level ELSE 0

\* The index get_task_ns_pid reads numbers at.
ns_index(level) ==
    IF U32Less(0, level) /\ U32Less(level, 8) THEN level ELSE 0

get_task_ns_pid(task) ==
    LET pid_struct == task.thread_pid
        level == pid_struct.level
    IN  core_read_nr(pid_struct, ns_index(level))

(***************************************************************************)
(* handle_exit's decoding of task->exit_code, a C int.                     *)
(***************************************************************************)
\* A decoder that takes the core-dump bit for part of the signal number.
decode_exit_code_mask8(exit_code) ==
    IF BitAnd(exit_code, 255) # 0
    THEN 128 + BitAnd(exit_code, 255)
    ELSE BitAnd(Shr(exit_code, 8), 255)

\* A decoder that forgets the & 0xFF on the status byte.
decode_exit_code_unmasked(exit_code) ==
    LET status == Shr(exit_code, 8)
    IN  IF BitAnd(exit_code, 127) # 0
        THEN 128 + BitAnd(exit_code, 127)
        ELSE status

decode_exit_code(exit_code) ==
    LET status == BitAnd(Shr(exit_code, 8), 255)
    IN  IF BitAnd(exit_code, 127) # 0
        THEN 128 + BitAnd(exit_code, 127)
        ELSE status

(***************************************************************************)
(* What handle_exit reads from the exiting task: its name, its exit_code,  *)
(* its struct pid, and real_parent, which it reads twice (once for the     *)
(* parent's pid, once for the parent's struct pid).                        *)
(***************************************************************************)
n_job == <<"j", "o", "b">>

TaskView(p, name, exit_code, parent1, parent2) ==
    [pid |-> p, comm |-> name, exit_code |-> exit_code,
     thread_pid |-> HostPid(p),
     real_parent1 |-> parent1, real_parent2 |-> parent2]

\* An assembly that reports the id of the exiting task, not the key.
BuildEvent_taskid(pid, task) ==
    LET parent_task == task.real_parent2
    IN  [pid |-> task.pid,
         comm |-> bpf_get_current_comm(task.comm),
         parent_pid |-> IF task.real_parent1.ptr = 0
                        THEN 0 ELSE task.real_parent1.pid,
         ns_pid |-> get_task_ns_pid(task),
         ns_parent_pid |-> IF parent_task.ptr # 0
                           THEN get_task_ns_pid(parent_task)
                           ELSE 0,
         exit_code |-> decode_exit_code(task.exit_code)]

\* An assembly that reports the parent's global id in both parent fields.
BuildEvent_parent_global(pid, task) ==
    LET parent_task == task.real_parent2
    IN  [pid |-> pid,
         comm |-> bpf_get_current_comm(task.comm),
         parent_pid |-> IF task.real_parent1.ptr = 0
                        THEN 0 ELSE task.real_parent1.pid,
         ns_pid |-> get_task_ns_pid(task),
         ns_parent_pid |-> IF parent_task.ptr # 0
                           THEN parent_task.pid
                           ELSE 0,
         exit_code |-> decode_exit_code(task.exit_code)]

\* The event handle_exit assembles for key pid from the task it runs in.
BuildEvent(pid, task) ==
    LET parent_task == task.real_parent2
    IN  [pid |-> pid,
         comm |-> bpf_get_current_comm(task.comm),
         parent_pid |-> IF task.real_parent1.ptr = 0
                        THEN 0 ELSE task.real_parent1.pid,
         ns_pid |-> get_task_ns_pid(task),
         ns_parent_pid |-> IF parent_task.ptr # 0
                           THEN get_task_ns_pid(parent_task)
                           ELSE 0,
         exit_code |-> decode_exit_code(task.exit_code)]

\* bpf_get_current_pid_tgid(): tgid in the upper 32 bits, pid in the lower.
bpf_get_current_pid_tgid(p, g) == [hi |-> g, lo |-> p]

(***************************************************************************)
(* State.                                                                  *)
(***************************************************************************)
VARIABLES
    tgid,            \* the kernel's tasks: tgid[p] is the thread-group id of
                     \* task p, 0 when there is no task p
    monitored_pids,  \* the tracking map
    events,          \* the perf buffer: records written and not yet read
    cpu,             \* per CPU: where the program running there stands
    just,            \* the program that returned in the last step, if any
    pending,         \* pids a matching fork was seen for whose task has not
                     \* yet been through handle_exit
    dropped,         \* pids whose matching fork found the map full, whose
                     \* task has not yet been through handle_exit
    reported,        \* per pid: events written for it since it was last
                     \* enrolled; 0 again once the kernel has freed the id
    unit             \* the call under check of the pure-function checks

vars == <<tgid, monitored_pids, events, cpu, just, pending, dropped,
          reported, unit>>

NoEvent == BuildEvent(0, TaskView(0, <<>>, 0, NullTask, NullTask))

IdleCpu == [pc |-> "idle", task |-> 0, pid |-> 0, evt |-> NoEvent,
            writes |-> 0, delivered |-> 0, ok |-> FALSE]

NoReturn == [op |-> "none", task |-> 0, key |-> 0, comm |-> <<>>,
             thread |-> FALSE, hit |-> FALSE, full |-> FALSE, had |-> FALSE,
             writes |-> 0, delivered |-> 0, ok |-> FALSE, muts |-> 0,
             ret |-> 0, dropped |-> FALSE]

NoUnit == [fn |-> "none"]

\* Task p is inside handle_exit on some CPU.
Running(p) == \E c \in CPUs : cpu[c].pc # "idle" /\ cpu[c].task = p

\* The kernel hands out an id no task and no thread group still carries.
PidFree(p) == tgid[p] = 0 /\ \A t \in Pids : tgid[t] # p

\* Thread groups a new thread can join: those with a task able to clone.
Groups == {tgid[p] : p \in {q \in Pids : tgid[q] # 0 /\ ~Running(q)}}

\* Exit statuses and the parent the main specification lets a task exit with.
MainStatuses == {9}
OuterParent == HostTask(MaxPid + 1)
ExitViews(p) ==
    {TaskView(p, n_job, raw, OuterParent, OuterParent) : raw \in MainStatuses}

\* The state when the programs are attached: no task followed yet, an
\* empty map, an empty channel.
MainInit ==
    /\ tgid = [p \in Pids |-> 0]
    /\ monitored_pids = EmptyMap
    /\ events = <<>>
    /\ cpu = [c \in CPUs |-> IdleCpu]
    /\ just = NoReturn
    /\ pending = {}
    /\ dropped = {}
    /\ reported = [p \in Pids |-> 0]

Init == MainInit /\ unit = NoUnit

(***************************************************************************)
(* handle_fork, run by the task that forks.  child_pid is the id of the    *)
(* new task; group is the thread group it joins, 0 for a new process.      *)
(***************************************************************************)
handle_fork(name, child_pid, group) ==
    LET parent_comm == bpf_get_current_comm(name)
        match == parent_matches(parent_comm)
        upd == IF match
               THEN bpf_map_update_elem(monitored_pids, child_pid, 1, BPF_ANY)
               ELSE [map |-> monitored_pids, rc |-> 0]
    IN  /\ \E c \in CPUs : cpu[c].pc = "idle"
        /\ PidFree(child_pid)
        /\ group = 0 \/ group \in Groups
        /\ tgid' = [tgid EXCEPT ![child_pid] =
                        IF group = 0 THEN child_pid ELSE group]
        /\ monitored_pids' = upd.map
        /\ just' = [NoReturn EXCEPT
                        !.op = "fork", !.task = child_pid, !.key = child_pid,
                        !.comm = name, !.thread = (group # 0),
                        !.full = (Cardinality(DOMAIN monitored_pids)
                                    >= max_entries),
                        !.had = (child_pid \in DOMAIN monitored_pids),
                        !.muts = IF match THEN 1 ELSE 0,
                        !.ok = (upd.rc = 0),
                        !.ret = 0]
        /\ pending' = IF match THEN pending \cup {child_pid} ELSE pending
        /\ dropped' = IF match /\ upd.rc # 0
                      THEN dropped \cup {child_pid} ELSE dropped
        /\ reported' = IF match /\ upd.rc = 0
                       THEN [reported EXCEPT ![child_pid] = 0] ELSE reported
        /\ UNCHANGED <<events, cpu, unit>>

(***************************************************************************)
(* handle_exit, run by the exiting task p on CPU c, in three steps.        *)
(***************************************************************************)
\* The record of a handle_exit that returns, and the kernel letting go of
\* the task.
ExitReturns(c, p, pid, hit, loc, mutations) ==
    /\ tgid' = [tgid EXCEPT ![p] = 0]
    /\ just' = [NoReturn EXCEPT
                    !.op = "exit", !.task = p, !.key = pid, !.hit = hit,
                    !.had = hit, !.writes = loc.writes,
                    !.delivered = loc.delivered, !.ok = loc.ok,
                    !.muts = mutations, !.ret = 0,
                    !.dropped = (p \in dropped)]
    /\ pending' = pending \ {p}
    /\ dropped' = dropped \ {p}
    /\ reported' = [q \in Pids |->
                        IF tgid'[q] # 0 \/ \E t \in Pids : tgid'[t] = q
                        THEN reported[q] ELSE 0]

\* Lines 81-114: the lookup and, on a hit, the assembly of the event.
handle_exit_lookup(c, p, task) ==
    LET pid == U64ToU32(Shr64By32(bpf_get_current_pid_tgid(p, tgid[p])))
        exists == bpf_map_lookup_elem(monitored_pids, pid)
    IN  /\ cpu[c].pc = "idle"
        /\ tgid[p] # 0
        /\ ~Running(p)
        /\ IF exists
           THEN /\ cpu' = [cpu EXCEPT ![c] =
                              [IdleCpu EXCEPT !.pc = "output", !.task = p,
                                              !.pid = pid,
                                              !.evt = BuildEvent(pid, task)]]
                /\ just' = NoReturn
                /\ UNCHANGED <<tgid, pending, dropped, reported>>
           ELSE /\ ExitReturns(c, p, pid, FALSE, IdleCpu, 0)
                /\ cpu' = cpu
        /\ UNCHANGED <<monitored_pids, events, unit>>

\* Line 116: the write to the channel.
handle_exit_output(c, no_fault) ==
    LET out == bpf_perf_event_output(events, cpu[c].evt, no_fault)
    IN  /\ cpu[c].pc = "output"
        /\ events' = out.buffer
        /\ cpu' = [cpu EXCEPT ![c].pc = "delete",
                              ![c].writes = @ + 1,
                              ![c].delivered = @ + Len(out.buffer) - Len(events),
                              ![c].ok = (out.rc = 0)]
        /\ reported' = IF out.rc = 0
                       THEN [reported EXCEPT ![cpu[c].pid] = @ + 1]
                       ELSE reported
        /\ just' = NoReturn
        /\ UNCHANGED <<tgid, monitored_pids, pending, dropped, unit>>

\* A handler that keeps the entry when the write failed, to report later.
handle_exit_delete_if_written(c) ==
    LET del == IF cpu[c].ok
               THEN bpf_map_delete_elem(monitored_pids, cpu[c].pid)
               ELSE [map |-> monitored_pids, rc |-> 0]
    IN  /\ cpu[c].pc = "delete"
        /\ monitored_pids' = del.map
        /\ ExitReturns(c, cpu[c].task, cpu[c].pid, TRUE, cpu[c],
                       IF cpu[c].ok THEN 1 ELSE 0)
        /\ cpu' = [cpu EXCEPT ![c] = IdleCpu]
        /\ UNCHANGED <<events, unit>>

\* Lines 117-119: the delete and the return.
handle_exit_delete(c) ==
    LET del == bpf_map_delete_elem(monitored_pids, cpu[c].pid)
    IN  /\ cpu[c].pc = "delete"
        /\ monitored_pids' = del.map
        /\ ExitReturns(c, cpu[c].task, cpu[c].pid, TRUE, cpu[c], 1)
        /\ cpu' = [cpu EXCEPT ![c] = IdleCpu]
        /\ UNCHANGED <<events, unit>>

(***************************************************************************)
(* The user-space reader takes the oldest record off the channel.          *)
(***************************************************************************)
ReaderDrains ==
    /\ events # <<>>
    /\ events' = Tail(events)
    /\ just' = NoReturn
    /\ UNCHANGED <<tgid, monitored_pids, cpu, pending, dropped, reported,
                   unit>>

Fork == \E name \in Names, child_pid \in Pids, group \in 0..MaxPid :
            handle_fork(name, child_pid, group)
ExitLookup == \E c \in CPUs, p \in Pids :
                  \E task \in ExitViews(p) : handle_exit_lookup(c, p, task)
ExitOutput == \E c \in CPUs, no_fault \in BOOLEAN :
                  handle_exit_output(c, no_fault)
ExitDelete == \E c \in CPUs : handle_exit_delete(c)

Next == Fork \/ ExitLookup \/ ExitOutput \/ ExitDelete \/ ReaderDrains

Spec == Init /\ [][Next]_vars

(***************************************************************************)
(* The exit-code decoding on its own: handle_exit assembles the event of a *)
(* task whose exit_code is drawn from a wide set of 32-bit statuses.  A    *)
(* status is given by its parts: the upper 16 bits hi (signed), the exit   *)
(* status byte, the core-dump bit and the 7-bit signal number.             *)
(***************************************************************************)
RawStatus(hi, status, core, sig) ==
    hi * 65536 + status * 256 + core * 128 + sig

DecodeInputs ==
    {[fn |-> "decode", hi |-> hi, status |-> status, core |-> core,
      sig |-> sig, raw |-> RawStatus(hi, status, core, sig),
      out |-> 0, done |-> FALSE] :
        hi \in {0, 1, 32767, -1, -32768},
        status \in {0, 1, 42, 128, 255},
        core \in {0, 1},
        sig \in {0, 1, 9, 11, 127}}

InitDecode == MainInit /\ unit \in DecodeInputs

DecodeStep ==
    /\ unit.fn = "decode"
    /\ ~unit.done
    /\ unit' = [unit EXCEPT
                   !.out = BuildEvent(1, TaskView(1, n_job, unit.raw,
                                                  OuterParent,
                                                  OuterParent)).exit_code,
                   !.done = TRUE]
    /\ UNCHANGED <<tgid, monitored_pids, events, cpu, just, pending, dropped,
                   reported>>

SpecDecode == InitDecode /\ [][DecodeStep]_vars

(***************************************************************************)
(* get_task_ns_pid on its own: a task whose struct pid has a level drawn   *)
(* from the unsigned 32-bit range and one of several numbers arrays.       *)
(***************************************************************************)
NsLevels == (0..10) \cup {16, 255, 2147483647, -1, -2147483647}

NsNumbers == {[i \in 0..(NumbersLen - 1) |-> base + i] :
                  base \in {100, 200, 300, 400}}

NsInputs ==
    {[fn |-> "ns", level |-> level, numbers |-> numbers,
      idx |-> 0, out |-> 0, done |-> FALSE] :
        level \in NsLevels, numbers \in NsNumbers}

InitNs == MainInit /\ unit \in NsInputs

NsStep ==
    /\ unit.fn = "ns"
    /\ ~unit.done
    /\ unit' = [unit EXCEPT
                   !.idx = ns_index(unit.level),
                   !.out = get_task_ns_pid(
                               [ptr |-> 1, pid |-> unit.numbers[0],
                                thread_pid |-> [level |-> unit.level,
                                                numbers |-> unit.numbers]]),
                   !.done = TRUE]
    /\ UNCHANGED <<tgid, monitored_pids, events, cpu, just, pending, dropped,
                   reported>>

SpecNs == InitNs /\ [][NsStep]_vars

(***************************************************************************)
(* handle_exit's reads of real_parent on their own.  The program runs in   *)
(* the exiting task without the kernel's task-list lock, and reads the     *)
(* task's real_parent twice: at line 97 for the parent's pid, at line 102  *)
(* for the handle it gives to get_task_ns_pid.  When the parent exits on   *)
(* another CPU the kernel moves the task to a reaper (init, or a           *)
(* subreaper of its namespace), which changes real_parent; that can fall   *)
(* before, between or after the two reads.                                 *)
(***************************************************************************)
\* A task with id p whose struct pid has the given level; its number at
\* level i > 0 is nr + i.
NsTask(p, level, nr) ==
    [ptr |-> p, pid |-> p,
     thread_pid |-> [level |-> level,
                     numbers |-> [i \in 0..(NumbersLen - 1) |->
                                     IF i = 0 THEN p ELSE nr + i]]]

\* The parents a task may have when it starts to exit, the null handle
\* among them, and the reapers the kernel may move it to.
ParentTasks ==
    {NsTask(p, level, nr) : p \in {3, 4}, level \in {0, 1, 7, 8},
                            nr \in {50, 60}} \cup {NullTask}
Reapers == {NsTask(1, 0, 10), NsTask(5, 1, 70)}

\* Line 103: whether handle_exit applies the resolver to the parent handle.
ns_parent_resolved(parent_task) == parent_task.ptr # 0

ParentInputs ==
    {[fn |-> "parent", pc |-> "l97", at_exit |-> parent,
      real_parent |-> parent, seen1 |-> NullTask, seen2 |-> NullTask,
      resolved |-> FALSE, parent_pid |-> 0, ns_parent_pid |-> 0] :
        parent \in ParentTasks}

InitParent == MainInit /\ unit \in ParentInputs

\* Line 97: evt.parent_pid = BPF_CORE_READ(task, real_parent, pid).
ParentReadPid ==
    /\ unit.fn = "parent"
    /\ unit.pc = "l97"
    /\ unit' = [unit EXCEPT !.pc = "l102", !.seen1 = unit.real_parent]
    /\ UNCHANGED <<tgid, monitored_pids, events, cpu, just, pending, dropped,
                   reported>>

\* Lines 100-114: the second read of real_parent and the rest of the event.
ParentReadTask ==
    LET evt == BuildEvent(2, TaskView(2, n_job, 0, unit.seen1,
                                      unit.real_parent))
    IN  /\ unit.fn = "parent"
        /\ unit.pc = "l102"
        /\ unit' = [unit EXCEPT
                       !.pc = "done",
                       !.seen2 = unit.real_parent,
                       !.resolved = ns_parent_resolved(unit.real_parent),
                       !.parent_pid = evt.parent_pid,
                       !.ns_parent_pid = evt.ns_parent_pid]
        /\ UNCHANGED <<tgid, monitored_pids, events, cpu, just, pending,
                       dropped, reported>>

\* The kernel gives the exiting task a new real parent.
Reparent ==
    /\ unit.fn = "parent"
    /\ unit.pc # "done"
    /\ unit.real_parent.ptr # 0
    /\ \E reaper \in Reapers \ {unit.real_parent} :
          unit' = [unit EXCEPT !.real_parent = reaper]
    /\ UNCHANGED <<tgid, monitored_pids, events, cpu, just, pending, dropped,
                   reported>>

NextParent == ParentReadPid \/ ParentReadTask \/ Reparent

SpecParent == InitParent /\ [][NextParent]_vars

(***************************************************************************)
(* The claims.                                                             *)
(***************************************************************************)

\* C1: a handle_exit that found its pid in monitored_pids has written to the
\* channel exactly once, has delivered one event if the write succeeded, and
\* leaves the pid out of the map when it returns; and no pid has a second
\* event written for one enrollment.
C1_OneEventPerEnrollment ==
    /\ (just.op = "exit" /\ just.hit) =>
          /\ just.writes = 1
          /\ (just.ok => just.delivered = 1)
          /\ just.key \notin DOMAIN monitored_pids
    /\ \A p \in Pids : reported[p] <= 1

\* C2: after a fork whose parent is named cron, CRON or crond, run with the
\* map below capacity, the child's pid is a key of monitored_pids and
\* handle_fork has made exactly one map mutation.
C2_MatchingForkEnrolls ==
    (just.op = "fork" /\ just.comm \in {n_cron, n_CRON, n_crond}
        /\ ~just.full) =>
       /\ just.key \in DOMAIN monitored_pids
       /\ just.muts = 1

C2_Witness ==
    /\ just.op = "fork" /\ just.comm = n_CRON /\ ~just.full
    /\ just.key \in DOMAIN monitored_pids

\* A name whose first four characters are neither cron nor CRON.
NotSchedulerName(name) ==
    Len(name) < 4 \/ SubSeq(name, 1, 4) \notin {n_cron, n_CRON}

\* C3: a fork whose parent's name does not match the filter (Cron, cRON and
\* names of fewer than four characters among them) changes neither
\* monitored_pids nor the channel, and handle_fork returns 0.
C3_NonMatchingForkNoEffect ==
    [][(just'.op = "fork" /\ NotSchedulerName(just'.comm)) =>
          /\ monitored_pids' = monitored_pids
          /\ events' = events
          /\ just'.muts = 0
          /\ just'.ret = 0]_vars

C3_Witness ==
    /\ just.op = "fork" /\ just.comm = n_cRON
    /\ monitored_pids # EmptyMap

\* C4: a fork whose parent's name starts with cron or CRON without being
\* cron, CRON or crond (crontab, cronx, CRONX) does not enroll the child.
C4_NoPrefixMatching ==
    (just.op = "fork" /\ just.comm \in {n_crontab, n_cronx, n_CRONX}
        /\ ~just.had) =>
       just.key \notin DOMAIN monitored_pids

\* C5: the exit_code of the event is 128 + signal when the status carries a
\* signal number (its low 7 bits), whatever its other bits, and the exit
\* status byte (bits 8..15) otherwise; 0x0000 gives 0, 0x2A00 gives 42 and
\* 0x0009 gives 137.
C5_ExitCodeDecoding ==
    (unit.fn = "decode" /\ unit.done) =>
       /\ unit.out = IF unit.sig # 0 THEN 128 + unit.sig ELSE unit.status
       /\ unit.raw = 0 => unit.out = 0
       /\ unit.raw = 10752 => unit.out = 42
       /\ unit.raw = 9 => unit.out = 137

C5_Witness ==
    /\ unit.fn = "decode" /\ unit.done
    /\ unit.status = 42 /\ unit.core = 1 /\ unit.sig = 9 /\ unit.hi = -1
    /\ unit.out = 137

\* C6: a handle_exit that found its pid and whose channel write failed has
\* made that one write and no other, has delivered no event, has deleted the
\* pid's entry all the same, and returns 0.
C6_WriteFailureStillDeletes ==
    (just.op = "exit" /\ just.hit /\ ~just.ok) =>
       /\ just.writes = 1
       /\ just.delivered = 0
       /\ just.muts = 1
       /\ just.key \notin DOMAIN monitored_pids
       /\ just.ret = 0

C6_Witness ==
    /\ just.op = "exit" /\ just.hit /\ ~just.ok
    /\ events = <<>>

\* C7: monitored_pids never holds more than max_entries entries; a fork by
\* cron, CRON or crond for a pid that is not a key, run when the map holds
\* max_entries entries, leaves the map as it was and returns 0.
C7_CapacityNoEviction ==
    /\ [](Cardinality(DOMAIN monitored_pids) <= max_entries)
    /\ [][(/\ just'.op = "fork"
           /\ just'.comm \in {n_cron, n_CRON, n_crond}
           /\ Cardinality(DOMAIN monitored_pids) = max_entries
           /\ just'.key \notin DOMAIN monitored_pids) =>
              /\ monitored_pids' = monitored_pids
              /\ just'.ret = 0]_vars

C7_Witness ==
    /\ just.op = "fork" /\ just.comm = n_crond
    /\ just.full /\ ~just.had /\ ~just.ok
    /\ Cardinality(DOMAIN monitored_pids) = max_entries

\* C8: the handle_exit of a task whose matching fork found the map full
\* finds nothing, writes no event and makes no map mutation.
C8_DroppedChildExitSilent ==
    (just.op = "exit" /\ just.dropped) =>
       /\ ~just.hit
       /\ just.writes = 0
       /\ just.muts = 0

\* C9: get_task_ns_pid returns numbers[level] for a level in 1..7 and
\* numbers[0] for every other level, and reads numbers inside 0..7.
C9_NsPidClamped ==
    (unit.fn = "ns" /\ unit.done) =>
       /\ unit.out = IF unit.level \in 1..7
                     THEN unit.numbers[unit.level]
                     ELSE unit.numbers[0]
       /\ unit.idx \in 0..7

C9_Witness ==
    /\ unit.fn = "ns" /\ unit.done
    /\ unit.level = 9
    /\ unit.out = unit.numbers[0]

\* C10: a pid is a key of monitored_pids exactly when a matching fork was
\* seen for it and its task has not yet been through handle_exit.  The
\* statement is read with the one exception the design makes: a fork whose
\* insert the full map refused counts as not seen.  A pid in dropped is in
\* pending and is no key, so the statement without the exception fails
\* wherever this one does, and in every state with a refused insert besides.
C10_EntryIffPending ==
    DOMAIN monitored_pids = pending \ dropped

\* C11: once every task has exited and every handler has returned,
\* monitored_pids holds no entry: no entry outlives the exit of the task it was
\* created for, a task whose id differs from its thread-group id included.
C11_NoEntryOutlivesExit ==
    ((\A p \in Pids : tgid[p] = 0) /\ (\A c \in CPUs : cpu[c].pc = "idle")) =>
       monitored_pids = EmptyMap

\* C12: the exit of a process that no matching fork was seen for finds
\* nothing and writes no event.  A key for the id of such a process can only
\* be left from an earlier task that carried the id, so the statement covers
\* every reuse of a pid that was tracked before.
C12_ReusedPidSilent ==
    [][(/\ just'.op = "exit"
        /\ tgid[just'.task] = just'.task
        /\ just'.task \notin pending) =>
           /\ ~just'.hit
           /\ just'.writes = 0]_vars

\* C13: a handle_exit goes past its lookup only when its pid is a key of
\* monitored_pids; one that does not find its pid leaves monitored_pids and
\* the channel as they were, makes no write and no map mutation, and
\* returns 0.
C13_MissNoEffect ==
    [][/\ \A c \in CPUs :
             (cpu[c].pc = "idle" /\ cpu'[c].pc # "idle") =>
                cpu'[c].pid \in DOMAIN monitored_pids
       /\ (just'.op = "exit" /\ ~just'.hit) =>
             /\ just'.key \notin DOMAIN monitored_pids
             /\ monitored_pids' = monitored_pids
             /\ events' = events
             /\ just'.writes = 0
             /\ just'.muts = 0
             /\ just'.ret = 0]_vars

C13_Witness ==
    /\ just.op = "exit" /\ ~just.hit
    /\ monitored_pids # EmptyMap
    /\ events # <<>>

\* C15: whatever the interleaving of the handle_exit invocations that look up
\* the same pid on different CPUs, no pid has more than one event written to
\* the channel for one enrollment.
C15_NoDoubleReport ==
    \A p \in Pids : reported[p] < 2

C20_CommAtExitPidIsKey ==
    /\ [](\A i \in 1..Len(events) :
             /\ events[i].comm = bpf_get_current_comm(n_job)
             /\ \A name \in Names :
                   events[i].comm # bpf_get_current_comm(name))
    /\ [][/\ Len(events') > Len(events) =>
                \E c \in CPUs :
                   /\ cpu[c].pc = "output"
                   /\ events' = Append(events, cpu[c].evt)
                   /\ cpu[c].evt.pid = cpu[c].pid
          /\ (just'.op = "exit" /\ just'.hit) =>
                \E c \in CPUs :
                   /\ cpu[c].pc = "delete" /\ cpu'[c].pc = "idle"
                   /\ cpu[c].evt.pid = just'.key
                   /\ just'.key = tgid[just'.task]
                   /\ DOMAIN monitored_pids'
                         = (DOMAIN monitored_pids) \ {just'.key}]_vars

C20_Witness ==
    /\ just.op = "exit" /\ just.hit /\ just.ok
    /\ just.task # just.key
    /\ events # <<>>
    /\ events[Len(events)].pid = just.key
    /\ events[Len(events)].comm = bpf_get_current_comm(n_job)

\* C14: whatever the 32-bit exit status, core-dump bit set or not, negative
\* or not, the exit_code of the event lies in 0..255.
C14_ExitCodeInByteRange ==
    (unit.fn = "decode" /\ unit.done) =>
       (unit.out >= 0 /\ unit.out <= 255)

C14_Witness ==
    /\ unit.fn = "decode" /\ unit.done
    /\ unit.raw < 0 /\ unit.core = 1 /\ unit.sig = 127 /\ unit.status = 255
    /\ unit.out = 255

\* The number of a task in its own pid namespace, read off its struct pid.
OwnNsNumber(t) ==
    IF t.thread_pid.level \in 1..(NumbersLen - 1)
    THEN t.thread_pid.numbers[t.thread_pid.level]
    ELSE t.thread_pid.numbers[0]

\* C18: when the real-parent handle handle_exit reads at line 102 is null,
\* the event has ns_parent_pid = 0 and the resolver is not applied to the
\* handle; when it is not null, the resolver is applied and ns_parent_pid is
\* the parent's number in its own pid namespace.
C18_NullParentGivesZero ==
    (unit.fn = "parent" /\ unit.pc = "done") =>
       IF unit.seen2.ptr = 0
       THEN unit.ns_parent_pid = 0 /\ ~unit.resolved
       ELSE unit.ns_parent_pid = OwnNsNumber(unit.seen2) /\ unit.resolved

C18_Witness ==
    /\ unit.fn = "parent" /\ unit.pc = "done"
    /\ unit.at_exit = NullTask /\ unit.seen2.ptr = 0
    /\ unit.ns_parent_pid = 0 /\ ~unit.resolved

\* C19: parent_pid and ns_parent_pid of an event describe one task: there
\* is a task whose id is parent_pid and whose number in its own pid namespace
\* is ns_parent_pid (both 0 for the null handle), whenever the kernel changes
\* real_parent.
C19_ParentFieldsOneTask ==
    (unit.fn = "parent" /\ unit.pc = "done") =>
       \E t \in ParentTasks \cup Reapers :
          /\ unit.parent_pid = t.pid
          /\ unit.ns_parent_pid = IF t.ptr = 0 THEN 0 ELSE OwnNsNumber(t)

====
